---- MODULE Spec2Model ----
(***************************************************************************)
(* A state-machine model of fast-typescript-memoize: the @Memoize()        *)
(* decorator (Memoize.ts), memoize0() and memoizeExpireUnused().           *)
(*                                                                         *)
(* JavaScript values are pairs <<type, payload>>.  Promises are modelled   *)
(* with their state, their reaction lists and the FIFO microtask queue of  *)
(* the host, so that the order "handler runs, derived promise settles,     *)
(* waiters are woken" is the one the runtime produces.                     *)
(***************************************************************************)
EXTENDS Integers, Sequences, FiniteSets, TLC

\* ------------------------------------------------------------------ bounds
MaxRuns == 2
MaxIncrements == 1
\* memoizeExpireUnused: the clock stops here; timers created; invocations of func
MaxTime == 4
MaxTimers == 3
MaxComputes == 3
\* the positive unusedMs of the runs, in clock ticks
TestUnusedMs == 2
\* memoize0: invocations of func that return; calls of memoize0 in progress at once
MaxFuncReturns == 3
MaxDepth == 2

\* --------------------------------------------------------------- JS values
Undefined == <<"undefined", <<>>>>
Null == <<"null", <<>>>>
True == <<"boolean", <<"true">>>>
False == <<"boolean", <<"false">>>>
Str(chars) == <<"string", chars>>
Obj(id) == <<"object", <<id>>>>

DigitChars == <<"0", "1", "2", "3", "4", "5", "6", "7", "8", "9">>

RECURSIVE NumToStr(_)
\* Number.prototype.toString() of a non-negative integer, as a sequence of characters.
NumToStr(n) ==
    IF n < 10 THEN <<DigitChars[n + 1]>>
    ELSE NumToStr(n \div 10) \o <<DigitChars[(n % 10) + 1]>>

Num(n) == <<"number", NumToStr(n)>>
ErrorVal(n) == <<"error", NumToStr(n)>>

\* typeof v
JsTypeof(v) == IF v[1] = "null" THEN "object" ELSE v[1]

\* ToBoolean(v): undefined, null and false are falsy (the only option values used)
Truthy(v) == v \notin {Undefined, Null, False}

\* s.substring(0, 1) of a string value
Substring01(s) == Str(SubSeq(s[2], 1, 1))

\* a + b where at least one operand is a string: string concatenation
Concat(a, b) == Str(a[2] \o b[2])

\* ----------------------------------------------------------- the test class
Receivers == {"r1", "r2"}
\* the receivers the single-object runs call
OneReceiver == {"r1"}

\* initial value of `private some = 42`
SomeInit == 42

S1 == Str(<<"a", "b">>)
S2 == Str(<<"a", "*">>)
O1 == Obj("o1")
\* a function passed as an argument: typeof gives "function"
F1 == <<"function", <<"f1">>>>
N10 == Num(10)

\* MemoizeOptions objects a decoration may pass; NoOptions is "argument omitted"
OptionsObj(cr, cs) == [given |-> TRUE, clearOnReject |-> cr, clearOnResolve |-> cs]
NoOptions == [given |-> FALSE, clearOnReject |-> Undefined, clearOnResolve |-> Undefined]
OptionSettings ==
    { NoOptions,
      OptionsObj(False, Undefined),
      OptionsObj(Undefined, True),
      OptionsObj(True, True) }

NoHasher == "none"
Hashers == {"someConcat2", "some0"}

\* the property descriptors of the class before decoration
DescriptorKinds == [m |-> "method", g |-> "getter", s |-> "setter"]
PropNames == DOMAIN DescriptorKinds

\* the hashers a descriptor can be decorated with (typing of the hasher argument)
HashersFor(prop) ==
    IF DescriptorKinds[prop] = "method" THEN {NoHasher, "someConcat2"}
    ELSE {NoHasher, "some0"}

\* the argument lists a decorated member is called with
ArgListsFor(prop, hasher) ==
    IF DescriptorKinds[prop] # "method" THEN {<<>>}
    ELSE IF hasher = NoHasher THEN {<<S1>>, <<S2>>, <<O1>>}
    ELSE {<<S1, N10>>, <<S2, N10>>}

\* what origMethod may do when it is invoked
OrigOutcomes == {"undefined", "number", "promise", "throw"}

VARIABLES
    counter,      \* `let counter = 0`
    descriptors,  \* per property: index of the closure installed by the decorator, 0 if none
    decos,        \* the closures built by buildNewMethod
    some,         \* per receiver: the field the hashers read
    maps,         \* per receiver: own properties holding a WeakMap or a Map
    vals,         \* per receiver: own properties holding a zero-argument slot
    runs,         \* invocations of origMethod, in order
    promises,     \* promise id -> [st, val]
    reactions,    \* promise id -> reactions registered while it was pending
    microtasks,   \* the host's microtask queue
    observed,     \* per invocation: what a caller awaiting its stored promise has seen
    lastCall,     \* the call of a wrapped member that the last step made, or NoCall:
                  \* its slot, what the slot held when it was issued, what it returned
    lastError,    \* what the last decoration threw, or Undefined
    \* ---- memoizeExpireUnused(func, { resolver, unusedMs })
    unusedMs,        \* the option: not given, or a number
    resolver,        \* the option: none, or the resolver of the test
    timeoutHasUnref, \* whether what the host's setTimeout returns has unref()
    now,             \* the host's clock
    cache,           \* `const cache = new Map()`: key -> { result, timeout }
    timers,          \* the host's armed timers: handle -> [key, deadline]
    timerSeq,        \* handles issued by setTimeout so far
    count,           \* invocations of func so far (`count++`)
    touched,         \* per key: when the wrapped function last returned for it, and what
    lastExpire,      \* the call or timer callback that the last step made, or NoExpire
    \* ---- memoize0(obj, tag, func)
    ownProps,        \* per object: the own properties memoize0 defined, tag -> value
    extensible,      \* per object: whether properties can be added to it
    stack,           \* the calls of memoize0 whose func() is running, innermost last
    nNext,           \* `let n = 0`: what the next func to return returns (`n++`)
    lastMemoize0,    \* the call of memoize0 that the last step completed, or NoMemoize0
    \* ---- the host's heap
    owners,          \* the objects passed as arguments that the caller's code still holds
    \* ---- calls of a wrapped member made while origMethod runs
    frames,          \* the calls whose origMethod is running, innermost last
    enterSeq,        \* invocations of origMethod started so far
    nestedSlots,     \* the slots for which origMethod was started while it was running
    \* ---- the branch selection of the wrapped function, on its own
    selected         \* the last inputs given to it and the storage and key it chose

memoizeVars ==
    <<counter, descriptors, decos, some, maps, vals, runs, promises, reactions,
      microtasks, observed, lastCall, lastError>>

expireVars ==
    <<unusedMs, resolver, timeoutHasUnref, now, cache, timers, timerSeq, count, touched,
      lastExpire>>

memoize0Vars == <<ownProps, extensible, stack, nNext, lastMemoize0>>

heapVars == <<owners>>

reentryVars == <<frames, enterSeq, nestedSlots>>

selectVars == <<selected>>

vars == <<memoizeVars, expireVars, memoize0Vars, heapVars, reentryVars, selectVars>>

\* what the steps of each part leave alone
notMemoizeVars == <<expireVars, memoize0Vars, heapVars, reentryVars, selectVars>>
notExpireVars == <<memoizeVars, memoize0Vars, heapVars, reentryVars, selectVars>>
notMemoize0Vars == <<memoizeVars, expireVars, heapVars, reentryVars, selectVars>>

EmptyFn == [x \in {} |-> Undefined]

\* ------------------------------------------------------------ Memoize.ts
\* the default of the destructured third parameter of buildNewMethod applies
\* only when the whole options argument is omitted
DestructureOptions(options) ==
    IF options.given
    THEN [clearOnReject |-> options.clearOnReject, clearOnResolve |-> options.clearOnResolve]
    ELSE [clearOnReject |-> True, clearOnResolve |-> False]

PropWeakName(propName, ctr) == <<"__memoized_weak_", propName, ctr>>
\* variant: the name does not include the counter
PropMapNameNoCounter(propName, ctr) == <<"__memoized_map_", propName, 0>>
PropMapName(propName, ctr) == <<"__memoized_map_", propName, ctr>>
PropValName(propName, ctr) == <<"__memoized_val_", propName, ctr>>

\* the closure buildNewMethod returns: what it captures
BuildNewMethod(propName, hasher, options, ctr) ==
    [ propName |-> propName,
      hasher |-> hasher,
      clearOnReject |-> DestructureOptions(options).clearOnReject,
      clearOnResolve |-> DestructureOptions(options).clearOnResolve,
      propWeakName |-> PropWeakName(propName, ctr),
      propMapName |-> PropMapName(propName, ctr),
      propValName |-> PropValName(propName, ctr) ]

\* the hashers of the test class, applied to a receiver's `some` and the arguments
ApplyHasher(hasher, thisSome, args) ==
    CASE hasher = "someConcat2" ->
            Concat(Concat(Num(thisSome), Substring01(args[1])), args[2])
      [] hasher = "some0" -> Num(thisSome)

UsesHashKey(d, args) == d.hasher # NoHasher \/ Len(args) > 0

\* variant: the hasher is ignored, the first argument is the key
HashKeyArgsOnly(d, thisSome, args) ==
    IF Len(args) > 0 THEN args[1] ELSE Undefined

HashKey(d, thisSome, args) ==
    IF d.hasher # NoHasher THEN ApplyHasher(d.hasher, thisSome, args) ELSE args[1]

IsObjectKey(hashKey) == hashKey # Null /\ JsTypeof(hashKey) = "object"

\* variant: object keys go to the Map as well
StorageKindNoWeak(d, thisSome, args) ==
    IF UsesHashKey(d, args) THEN "map" ELSE "val"
\* which of the three storages a call uses
StorageKind(d, thisSome, args) ==
    IF UsesHashKey(d, args)
    THEN IF IsObjectKey(HashKey(d, thisSome, args)) THEN "weak" ELSE "map"
    ELSE "val"

\* variant: one property name for the three storages
StorageNameShared(d, kind) == d.propMapName
StorageName(d, kind) ==
    CASE kind = "weak" -> d.propWeakName
      [] kind = "map" -> d.propMapName
      [] OTHER -> d.propValName

SlotKey(d, thisSome, args) ==
    IF UsesHashKey(d, args) THEN HashKey(d, thisSome, args) ELSE Undefined

\* variant: a new map on every call
GetOrCreateMapFresh(ownMaps, name) == EmptyFn

\* this[propWeakName] / this[propMapName] after the hasOwnProperty / defineProperty block
GetOrCreateMap(ownMaps, name) ==
    IF name \in DOMAIN ownMaps THEN ownMaps[name] ELSE EmptyFn

\* variant: the lookup never finds a slot
HasSlotNever(kind, ownMaps, ownVals, name, key) == FALSE
\* variant: a stored falsy value counts as no slot
HasSlotFalsy(kind, ownMaps, ownVals, name, key) ==
    IF kind = "val" THEN name \in DOMAIN ownVals /\ ownVals[name] \notin {Undefined, Num(0)}
    ELSE key \in DOMAIN GetOrCreateMap(ownMaps, name)

\* weak.has(hashKey) / map.has(hashKey) / this.hasOwnProperty(propValName)
HasSlot(kind, ownMaps, ownVals, name, key) ==
    IF kind = "val" THEN name \in DOMAIN ownVals
    ELSE key \in DOMAIN GetOrCreateMap(ownMaps, name)

\* weak.get(hashKey) / map.get(hashKey) / this[propValName]
GetSlot(kind, ownMaps, ownVals, name, key) ==
    IF kind = "val" THEN ownVals[name] ELSE GetOrCreateMap(ownMaps, name)[key]

\* variant: storing a key drops the other keys
MapSetOnly(m, key, value) == [k \in {key} |-> value]
MapSet(m, key, value) == [k \in DOMAIN m \cup {key} |-> IF k = key THEN value ELSE m[k]]
MapDelete(m, key) == [k \in DOMAIN m \ {key} |-> m[k]]

\* the promises a miss creates: origMethod's, .catch(...) if clearOnReject,
\* .then(...) if clearOnResolve; the last one is stored and returned
PromiseChain(d, run) ==
    <<(<<run, 0>>)>>
        \o (IF Truthy(d.clearOnReject) THEN <<(<<run, 1>>)>> ELSE <<>>)
        \o (IF Truthy(d.clearOnResolve) THEN <<(<<run, 2>>)>> ELSE <<>>)

StoredPromise(d, run) == PromiseChain(d, run)[Len(PromiseChain(d, run))]

SeqRange(sq) == {sq[n] : n \in 1..Len(sq)}

DeriveReaction(src, dst) == [type |-> "derive", src |-> src, dst |-> dst]
WakeReaction(src) == [type |-> "wake", src |-> src, dst |-> src]

\* the reactions registered on the promises of a chain before the call returns, and the
\* continuation of the caller, who awaits the promise it is given (`await obj.method()`)
ChainReactions(chain) ==
    [p \in SeqRange(chain) |->
        LET n == CHOOSE n \in 1..Len(chain) : chain[n] = p
        IN IF n < Len(chain) THEN <<DeriveReaction(p, chain[n + 1])>>
           ELSE <<WakeReaction(p)>>]

Pending == [st |-> "pending", val |-> Undefined]

\* the helpers bound as settlement observers
\* variant: the error is swallowed
DeleteWeakKeyAndRethrowSwallow(weak, key, e) ==
    [store |-> MapDelete(weak, key), st |-> "fulfilled", val |-> Undefined]
DeleteWeakKeyAndRethrow(weak, key, e) ==
    [store |-> MapDelete(weak, key), st |-> "rejected", val |-> e]
\* variant: rethrows without deleting
DeleteMapKeyAndRethrowKeep(map, key, e) ==
    [store |-> map, st |-> "rejected", val |-> e]
DeleteMapKeyAndRethrow(map, key, e) ==
    [store |-> MapDelete(map, key), st |-> "rejected", val |-> e]
DeleteObjPropAndRethrow(obj, key, e) ==
    [store |-> MapDelete(obj, key), st |-> "rejected", val |-> e]
DeleteWeakKeyAndReturn(weak, key, value) ==
    [store |-> MapDelete(weak, key), st |-> "fulfilled", val |-> value]
DeleteMapKeyAndReturn(map, key, value) ==
    [store |-> MapDelete(map, key), st |-> "fulfilled", val |-> value]
\* variant: returns without deleting
DeleteObjPropAndReturnKeep(obj, key, value) ==
    [store |-> obj, st |-> "fulfilled", val |-> value]
DeleteObjPropAndReturn(obj, key, value) ==
    [store |-> MapDelete(obj, key), st |-> "fulfilled", val |-> value]

\* ------------------------------------------------- memoizeExpireUnused
\* the unusedMs option: omitted, or a number of clock ticks
NoUnusedMs == [given |-> FALSE, ms |-> 0]
Ms(n) == [given |-> TRUE, ms |-> n]
UnusedMsSettings == {NoUnusedMs, Ms(0), Ms(TestUnusedMs)}

\* variant: tests that the option is given, not its truthiness
UnusedMsGiven(u) == u.given

\* `if (unusedMs)`
UnusedMsSet(u) == u.given /\ u.ms # 0

NoResolver == "none"
Resolvers == {NoResolver, "identity"}

\* the argument lists the wrapped function is called with
ExpireArgLists == {<<S1>>, <<S2>>}

\* `(s) => s`
ApplyResolver(res, args) == args[1]

\* `resolver ? resolver.apply(this, args) : args[0]`
ExpireKey(res, args) ==
    IF res # NoResolver THEN ApplyResolver(res, args) ELSE args[1]

\* slot.timeout of `slot = { result }`
NoTimeout == 0

\* `{ result }`
NewSlot(result) == [result |-> result, timeout |-> NoTimeout]

\* clearTimeout(handle)
ClearTimeout(tm, handle) == [id \in DOMAIN tm \ {handle} |-> tm[id]]

\* variant: the timer is never armed
SetTimeoutLost(tm, id, key, ms, t) == tm

\* setTimeout(callback bound to key, ms) at time t, returning handle id
SetTimeout(tm, id, key, ms, t) ==
    [i \in DOMAIN tm \cup {id} |->
        IF i = id THEN [key |-> key, deadline |-> t + ms] ELSE tm[i]]

\* `handle.unref?.()`: the handle itself where the host's handle has unref(),
\* undefined where it has not
UnrefOptional(handle, hasUnref) == IF hasUnref THEN handle ELSE NoTimeout

\* `if (unusedMs) { if (slot.timeout) clearTimeout(slot.timeout);
\*    slot.timeout = setTimeout(...).unref?.(); }`
ArmTimer(slot, key, u, hasUnref, tm, seq, t) ==
    IF UnusedMsSet(u)
    THEN [ slot |-> [slot EXCEPT !.timeout = UnrefOptional(seq + 1, hasUnref)],
           timers |->
               SetTimeout(
                   IF slot.timeout # NoTimeout THEN ClearTimeout(tm, slot.timeout) ELSE tm,
                   seq + 1, key, u.ms, t),
           timerSeq |-> seq + 1 ]
    ELSE [slot |-> slot, timers |-> tm, timerSeq |-> seq]

\* removeMapKey: this.delete(key)
RemoveMapKey(map, key) == MapDelete(map, key)

NoTouch == [at |-> -1, ret |-> -1]
NoExpire ==
    [type |-> "none", key |-> Undefined, at |-> 0, hit |-> FALSE, ret |-> -1,
     prev |-> NoTouch]

\* --------------------------------------------------------------- memoize0
\* `containerA`, `containerB`; `$tag1`, `$tag2`
Containers == {"containerA", "containerB"}
Tags == {"$tag1", "$tag2"}

\* obj.hasOwnProperty(tag)
HasOwnProperty(props, tag) == tag \in DOMAIN props

\* Object.defineProperty(obj, tag, { enumerable: false, writable: false, value }):
\* adds the property to an extensible object; a property defined before is neither
\* writable nor configurable, so defining it with another value is rejected; so is
\* adding a property to an object that is not extensible
DefinePropertyOk(props, isExtensible, tag, value) ==
    IF HasOwnProperty(props, tag) THEN props[tag] = value ELSE isExtensible

\* variant: one slot per object, whatever the tag
DefinePropertyAllTags(props, tag, value) == [t \in Tags |-> value]

DefineProperty(props, tag, value) ==
    [t \in DOMAIN props \cup {tag} |-> IF t = tag THEN value ELSE props[t]]

NoMemoize0 == [obj |-> "", tag |-> "", outcome |-> "none", ret |-> -1]

\* ------------------------------------------------------------------ state
NoCall ==
    [recv |-> "", deco |-> 0, args |-> <<>>, kind |-> "", name |-> <<>>, key |-> Undefined,
     hit |-> FALSE, prior |-> Undefined, priorSt |-> "none", ret |-> Undefined, run |-> 0]

InitMemoize ==
    /\ counter = 0
    /\ descriptors = [p \in PropNames |-> 0]
    /\ decos = <<>>
    /\ some = [r \in Receivers |-> SomeInit]
    /\ maps = [r \in Receivers |-> EmptyFn]
    /\ vals = [r \in Receivers |-> EmptyFn]
    /\ runs = <<>>
    /\ promises = EmptyFn
    /\ reactions = EmptyFn
    /\ microtasks = <<>>
    /\ observed = <<>>
    /\ lastCall = NoCall
    /\ lastError = Undefined

\* memoizeExpireUnused is not used
InitUnused ==
    /\ unusedMs = NoUnusedMs
    /\ resolver = NoResolver
    /\ timeoutHasUnref = TRUE
    /\ now = 0
    /\ cache = EmptyFn
    /\ timers = EmptyFn
    /\ timerSeq = 0
    /\ count = 0
    /\ touched = EmptyFn
    /\ lastExpire = NoExpire

\* memoize0: two objects and no call yet
InitMemoize0 ==
    /\ ownProps = [o \in Containers |-> EmptyFn]
    /\ extensible = [o \in Containers |-> TRUE]
    /\ stack = <<>>
    /\ nNext = 0
    /\ lastMemoize0 = NoMemoize0

\* the caller holds every object it passes
InitHeap == owners = {O1}

\* no origMethod is running
InitReentry ==
    /\ frames = <<>>
    /\ enterSeq = 0
    /\ nestedSlots = {}

Init ==
    /\ InitMemoize /\ InitUnused /\ InitMemoize0 /\ InitHeap /\ InitReentry
    /\ selected = <<>>

\* Memoize(hasher?, options?)(target, propName, descriptor) on a method or a getter
Decorate(propName, hasher, options) ==
    /\ runs = <<>>
    /\ descriptors[propName] = 0
    /\ DescriptorKinds[propName] \in {"method", "getter"}
    /\ hasher \in HashersFor(propName)
    /\ decos' = Append(decos, BuildNewMethod(propName, hasher, options, counter))
    /\ counter' = counter + 1
    /\ descriptors' = [descriptors EXCEPT ![propName] = Len(decos) + 1]
    /\ lastError' = Undefined
    /\ UNCHANGED <<some, maps, vals, runs, promises, reactions, microtasks, observed,
                   lastCall>>
    /\ UNCHANGED notMemoizeVars

\* the decorator applied to the member of the same name of a subclass, whose instances
\* reach the member of the base class as super[propName]
DecorateSubclass(propName, hasher, options) ==
    /\ runs = <<>>
    /\ descriptors[propName] # 0
    /\ hasher \in HashersFor(propName)
    /\ decos' = Append(decos, BuildNewMethod(propName, hasher, options, counter))
    /\ counter' = counter + 1
    /\ lastError' = Undefined
    /\ UNCHANGED <<descriptors, some, maps, vals, runs, promises, reactions, microtasks,
                   observed, lastCall>>
    /\ UNCHANGED notMemoizeVars

\* variant: a descriptor with neither a function value nor a get accessor is wrapped too
DecorateOtherWraps(propName, hasher, options) ==
    /\ runs = <<>>
    /\ DescriptorKinds[propName] \notin {"method", "getter"}
    /\ decos' = Append(decos, BuildNewMethod(propName, hasher, options, counter))
    /\ counter' = counter + 1
    /\ descriptors' = [descriptors EXCEPT ![propName] = Len(decos) + 1]
    /\ lastError' = Undefined
    /\ UNCHANGED <<some, maps, vals, runs, promises, reactions, microtasks, observed,
                   lastCall>>
    /\ UNCHANGED notMemoizeVars
\* the same on a descriptor with neither a function value nor a get accessor
DecorateOther(propName, hasher, options) ==
    /\ runs = <<>>
    /\ DescriptorKinds[propName] \notin {"method", "getter"}
    /\ lastError' = Str(<<"Only put @Memoize() decorator on a method or get accessor.">>)
    /\ UNCHANGED <<counter, descriptors, decos, some, maps, vals, runs, promises,
                   reactions, microtasks, observed, lastCall>>
    /\ UNCHANGED notMemoizeVars

\* incrementSome() of the test class (called where a hasher reads `some`)
IncrementSome(r) ==
    /\ \E i \in 1..Len(decos) : decos[i].hasher \in Hashers
    /\ some[r] < SomeInit + MaxIncrements
    /\ some' = [some EXCEPT ![r] = @ + 1]
    /\ lastCall' = NoCall
    /\ UNCHANGED <<counter, descriptors, decos, maps, vals, runs, promises, reactions,
                   microtasks, observed, lastError>>
    /\ UNCHANGED notMemoizeVars

\* ---- observation only: what a slot holds, read off the receiver's own properties
Absent == <<"absent", <<>>>>

StoredAt(r, kind, name, key) ==
    IF kind = "val"
    THEN IF name \in DOMAIN vals[r] THEN vals[r][name] ELSE Absent
    ELSE IF name \in DOMAIN maps[r] /\ key \in DOMAIN maps[r][name]
         THEN maps[r][name][key]
         ELSE Absent

StatusOf(v) ==
    IF v = Absent THEN "absent"
    ELSE IF v[1] = "promise" THEN promises[v[2]].st
    ELSE "plain"

\* a call of the wrapped function that finds its slot
CallHit(r, i, args) ==
    /\ i \in 1..Len(decos)
    /\ args \in ArgListsFor(decos[i].propName, decos[i].hasher)
    /\ \E kind \in {StorageKind(decos[i], some[r], args)},
          key \in {SlotKey(decos[i], some[r], args)} :
       LET d == decos[i]
           name == StorageName(d, kind)
       IN  /\ HasSlot(kind, maps[r], vals[r], name, key)
           /\ lastCall' =
                 [recv |-> r, deco |-> i, args |-> args, kind |-> kind, name |-> name,
                  key |-> key, hit |-> TRUE,
                  prior |-> StoredAt(r, kind, name, key),
                  priorSt |-> StatusOf(StoredAt(r, kind, name, key)),
                  ret |-> GetSlot(kind, maps[r], vals[r], name, key), run |-> 0]
    /\ UNCHANGED <<counter, descriptors, decos, some, maps, vals, runs, promises,
                   reactions, microtasks, observed, lastError>>
    /\ UNCHANGED notMemoizeVars

\* the value origMethod returns in its run-th invocation (`this.count++`), after the
\* settlement observers are chained to a promise
OrigValue(outcome, d, run) ==
    CASE outcome = "undefined" -> Undefined
      [] outcome = "number" -> Num(run - 1)
      [] outcome = "promise" -> <<"promise", StoredPromise(d, run)>>
      [] OTHER -> <<"throw", NumToStr(run - 1)>>

\* variant: every value is taken for a promise
InstanceofPromiseAlways(value) == TRUE
\* value instanceof Promise
InstanceofPromise(value) == value[1] = "promise"

Waiting == [st |-> "waiting", val |-> Undefined]
NotAsync == [st |-> "none", val |-> Undefined]

\* a call of the wrapped function that misses: origMethod runs
CallMiss(r, i, args, outcome) ==
    /\ Len(runs) < MaxRuns
    /\ i \in 1..Len(decos)
    /\ args \in ArgListsFor(decos[i].propName, decos[i].hasher)
    /\ \E kind \in {StorageKind(decos[i], some[r], args)},
          key \in {SlotKey(decos[i], some[r], args)} :
       LET d == decos[i]
           run == Len(runs) + 1
           name == StorageName(d, kind)
           store == GetOrCreateMap(maps[r], name)
           chain == PromiseChain(d, run)
           value == OrigValue(outcome, d, run)
       IN  /\ ~HasSlot(kind, maps[r], vals[r], name, key)
           /\ runs' = Append(runs, [recv |-> r, deco |-> i, args |-> args, kind |-> kind,
                                    name |-> name, key |-> key, outcome |-> outcome])
           /\ maps' = IF kind = "val" THEN maps
                      ELSE IF outcome = "throw"
                      THEN [maps EXCEPT ![r] = (name :> store) @@ @]
                      ELSE [maps EXCEPT ![r] = (name :> MapSet(store, key, value)) @@ @]
           /\ vals' = IF kind = "val" /\ outcome # "throw"
                      THEN [vals EXCEPT ![r] = MapSet(@, name, value)]
                      ELSE vals
           /\ promises' = IF InstanceofPromise(value)
                          THEN [p \in SeqRange(chain) |-> Pending] @@ promises
                          ELSE promises
           /\ reactions' = IF InstanceofPromise(value)
                           THEN ChainReactions(chain) @@ reactions
                           ELSE reactions
           /\ lastCall' =
                 [recv |-> r, deco |-> i, args |-> args, kind |-> kind, name |-> name,
                  key |-> key, hit |-> FALSE,
                  prior |-> StoredAt(r, kind, name, key),
                  priorSt |-> StatusOf(StoredAt(r, kind, name, key)),
                  ret |-> value, run |-> run]
    /\ observed' = Append(observed, IF outcome = "promise" THEN Waiting ELSE NotAsync)
    /\ UNCHANGED <<counter, descriptors, decos, some, microtasks, lastError>>
    /\ UNCHANGED notMemoizeVars

\* the promise origMethod returned in invocation `run` settles
OrigSettles(run, st) ==
    /\ run \in 1..Len(runs)
    /\ <<run, 0>> \in DOMAIN promises
    /\ promises[<<run, 0>>].st = "pending"
    /\ promises' = [promises EXCEPT ![<<run, 0>>] =
                       [st |-> st,
                        val |-> IF st = "fulfilled" THEN Num(run - 1) ELSE ErrorVal(run - 1)]]
    /\ microtasks' = microtasks \o reactions[<<run, 0>>]
    /\ reactions' = [reactions EXCEPT ![<<run, 0>>] = <<>>]
    /\ lastCall' = NoCall
    /\ UNCHANGED <<counter, descriptors, decos, some, maps, vals, runs, observed,
                   lastError>>
    /\ UNCHANGED notMemoizeVars

\* variant: the returning helper registered for both outcomes, .then(handler, handler)
ReactionResultThenBoth(rn, stage, src, ownMaps, ownVals) ==
    LET store == IF rn.kind = "val" THEN ownVals ELSE ownMaps[rn.name]
        delKey == IF rn.kind = "val" THEN rn.name ELSE rn.key
    IN  IF stage = 1 /\ src.st = "rejected"
        THEN [store |-> MapDelete(store, delKey), st |-> "rejected", val |-> src.val]
        ELSE IF stage = 2
        THEN [store |-> MapDelete(store, delKey), st |-> "fulfilled", val |-> src.val]
        ELSE [store |-> store, st |-> src.st, val |-> src.val]

\* variant: the rethrowing helper registered with .then instead of .catch
ReactionResultThenForCatch(rn, stage, src, ownMaps, ownVals) ==
    LET store == IF rn.kind = "val" THEN ownVals ELSE ownMaps[rn.name]
        delKey == IF rn.kind = "val" THEN rn.name ELSE rn.key
    IN  IF src.st = "fulfilled" /\ stage \in {1, 2}
        THEN [store |-> MapDelete(store, delKey),
              st |-> IF stage = 1 THEN "rejected" ELSE "fulfilled", val |-> src.val]
        ELSE [store |-> store, st |-> src.st, val |-> src.val]

\* what the reaction registered by .catch(handler) (stage 1) or .then(handler) (stage 2)
\* does with the settled source: run the bound helper, or pass the outcome through
ReactionResult(rn, stage, src, ownMaps, ownVals) ==
    LET store == IF rn.kind = "val" THEN ownVals ELSE ownMaps[rn.name]
        delKey == IF rn.kind = "val" THEN rn.name ELSE rn.key
    IN  IF stage = 1 /\ src.st = "rejected"
        THEN CASE rn.kind = "weak" -> DeleteWeakKeyAndRethrow(store, delKey, src.val)
               [] rn.kind = "map" -> DeleteMapKeyAndRethrow(store, delKey, src.val)
               [] OTHER -> DeleteObjPropAndRethrow(store, delKey, src.val)
        ELSE IF stage = 2 /\ src.st = "fulfilled"
        THEN CASE rn.kind = "weak" -> DeleteWeakKeyAndReturn(store, delKey, src.val)
               [] rn.kind = "map" -> DeleteMapKeyAndReturn(store, delKey, src.val)
               [] OTHER -> DeleteObjPropAndReturn(store, delKey, src.val)
        ELSE [store |-> store, st |-> src.st, val |-> src.val]

\* the host runs the first microtask: a reaction of the decorator's promise chain
RunReaction ==
    /\ microtasks # <<>>
    /\ Head(microtasks).type = "derive"
    /\ LET job == Head(microtasks)
           rn == runs[job.dst[1]]
           res == ReactionResult(rn, job.dst[2], promises[job.src], maps[rn.recv],
                                 vals[rn.recv])
       IN  /\ maps' = IF rn.kind = "val" THEN maps
                      ELSE [maps EXCEPT ![rn.recv][rn.name] = res.store]
           /\ vals' = IF rn.kind = "val" THEN [vals EXCEPT ![rn.recv] = res.store]
                      ELSE vals
           /\ promises' = [promises EXCEPT ![job.dst] = [st |-> res.st, val |-> res.val]]
           /\ microtasks' = Tail(microtasks) \o reactions[job.dst]
           /\ reactions' = [reactions EXCEPT ![job.dst] = <<>>]
    /\ lastCall' = NoCall
    /\ UNCHANGED <<counter, descriptors, decos, some, runs, observed, lastError>>
    /\ UNCHANGED notMemoizeVars

\* the host runs the first microtask: the continuation of the caller awaiting a stored
\* promise; every holder of that promise sees the same settled state
RunWake ==
    /\ microtasks # <<>>
    /\ Head(microtasks).type = "wake"
    /\ LET job == Head(microtasks)
       IN  observed' = [observed EXCEPT ![job.src[1]] = promises[job.src]]
    /\ microtasks' = Tail(microtasks)
    /\ lastCall' = NoCall
    /\ UNCHANGED <<counter, descriptors, decos, some, maps, vals, runs, promises, reactions,
                   lastError>>
    /\ UNCHANGED notMemoizeVars

AllArgLists ==
    UNION {ArgListsFor(p, h) : p \in PropNames, h \in Hashers \cup {NoHasher}}

\* one class with one decorated member, one object
Next ==
    \/ \E p \in PropNames, h \in Hashers \cup {NoHasher}, o \in OptionSettings :
          decos = <<>> /\ Decorate(p, h, o)
    \/ \E p \in PropNames, h \in Hashers \cup {NoHasher}, o \in OptionSettings :
          decos = <<>> /\ DecorateOther(p, h, o)
    \/ \E r \in OneReceiver : IncrementSome(r)
    \/ \E r \in OneReceiver, i \in {1}, args \in AllArgLists : CallHit(r, i, args)
    \/ \E r \in OneReceiver, i \in {1}, args \in AllArgLists, outcome \in OrigOutcomes :
          CallMiss(r, i, args, outcome)
    \/ \E run \in 1..MaxRuns, st \in {"fulfilled", "rejected"} : OrigSettles(run, st)
    \/ RunReaction
    \/ RunWake

Spec == Init /\ [][Next]_vars

\* ---- two decorated members (of different names, or of the same name in a class and
\* its subclass), two objects, every member called on every object; one of the
\* invocations may return a promise, whose settlement removes its slot
IsolationOptions == {OptionsObj(True, True)}
IsolationOutcomes == {"number", "promise"}

\* a zero-argument call, a call with a string and a call with an object
IsolationArgLists == {<<>>, <<S1>>, <<O1>>}

NextIsolation ==
    \/ \E p \in PropNames, o \in IsolationOptions :
          Len(decos) < 2 /\ Decorate(p, NoHasher, o)
    \/ \E p \in PropNames, o \in IsolationOptions :
          Len(decos) = 1 /\ DecorateSubclass(p, NoHasher, o)
    \/ \E r \in Receivers, i \in DOMAIN decos, args \in IsolationArgLists : CallHit(r, i, args)
    \/ \E r \in Receivers, i \in DOMAIN decos, args \in IsolationArgLists,
          outcome \in IsolationOutcomes :
          /\ Len(decos) = 2
          /\ outcome = "promise" => \A c \in DOMAIN runs : runs[c].outcome # "promise"
          /\ CallMiss(r, i, args, outcome)
    \/ \E run \in 1..MaxRuns, st \in {"fulfilled", "rejected"} : OrigSettles(run, st)
    \/ RunReaction
    \/ RunWake

SpecIsolation == Init /\ [][NextIsolation]_vars

\* ---- the decorator applied to each member of the class, then calls that return a
\* number; what a decorator throws ends the definition of the class, and nothing of the
\* class is decorated or called after that
DecorateOutcomes == {"number"}

NextDecorate ==
    \/ \E p \in PropNames, h \in Hashers \cup {NoHasher}, o \in OptionSettings :
          lastError = Undefined /\ Decorate(p, h, o)
    \/ \E p \in PropNames, h \in Hashers \cup {NoHasher}, o \in OptionSettings :
          lastError = Undefined /\ DecorateOther(p, h, o)
    \/ \E r \in OneReceiver, i \in DOMAIN decos, args \in AllArgLists :
          lastError = Undefined /\ CallHit(r, i, args)
    \/ \E r \in OneReceiver, i \in DOMAIN decos, args \in AllArgLists,
          outcome \in DecorateOutcomes :
          lastError = Undefined /\ CallMiss(r, i, args, outcome)

SpecDecorate == Init /\ [][NextDecorate]_vars

\* ---- origMethod may call the wrapped member while it runs: the call of the wrapped
\* function in two steps, up to origMethod.apply(this, args) and from its return
FrameSlot(f) == <<f.recv, f.name, f.key>>

\* variant: origMethod is invoked without looking the slot up
MissEnterNoLookup(r, i, args) ==
    /\ Len(frames) < MaxDepth
    /\ enterSeq < MaxRuns
    /\ i \in 1..Len(decos)
    /\ args \in ArgListsFor(decos[i].propName, decos[i].hasher)
    /\ \E kind \in {StorageKind(decos[i], some[r], args)},
          key \in {SlotKey(decos[i], some[r], args)} :
       LET name == StorageName(decos[i], kind)
           f == [recv |-> r, deco |-> i, args |-> args, kind |-> kind, name |-> name,
                 key |-> key]
       IN  /\ frames' = Append(frames, f)
           /\ nestedSlots' =
                 IF \E n \in DOMAIN frames : FrameSlot(frames[n]) = FrameSlot(f)
                 THEN nestedSlots \cup {FrameSlot(f)}
                 ELSE nestedSlots
           /\ maps' = IF kind = "val" THEN maps
                      ELSE [maps EXCEPT ![r] = (name :> GetOrCreateMap(maps[r], name)) @@ @]
    /\ enterSeq' = enterSeq + 1
    /\ lastCall' = NoCall
    /\ UNCHANGED <<counter, descriptors, decos, some, vals, runs, promises, reactions,
                   microtasks, observed, lastError>>
    /\ UNCHANGED <<expireVars, memoize0Vars, heapVars, selectVars>>

\* a call of the wrapped function finds no slot and invokes origMethod
MissEnter(r, i, args) ==
    /\ Len(frames) < MaxDepth
    /\ enterSeq < MaxRuns
    /\ i \in 1..Len(decos)
    /\ args \in ArgListsFor(decos[i].propName, decos[i].hasher)
    /\ \E kind \in {StorageKind(decos[i], some[r], args)},
          key \in {SlotKey(decos[i], some[r], args)} :
       LET name == StorageName(decos[i], kind)
           f == [recv |-> r, deco |-> i, args |-> args, kind |-> kind, name |-> name,
                 key |-> key]
       IN  /\ ~HasSlot(kind, maps[r], vals[r], name, key)
           /\ frames' = Append(frames, f)
           /\ nestedSlots' =
                 IF \E n \in DOMAIN frames : FrameSlot(frames[n]) = FrameSlot(f)
                 THEN nestedSlots \cup {FrameSlot(f)}
                 ELSE nestedSlots
           /\ maps' = IF kind = "val" THEN maps
                      ELSE [maps EXCEPT ![r] = (name :> GetOrCreateMap(maps[r], name)) @@ @]
    /\ enterSeq' = enterSeq + 1
    /\ lastCall' = NoCall
    /\ UNCHANGED <<counter, descriptors, decos, some, vals, runs, promises, reactions,
                   microtasks, observed, lastError>>
    /\ UNCHANGED <<expireVars, memoize0Vars, heapVars, selectVars>>

\* the innermost origMethod returns or throws: the observers are chained, the value is
\* stored over whatever the slot holds by now, and the call returns
MissReturn(outcome) ==
    /\ frames # <<>>
    /\ LET f == frames[Len(frames)]
           r == f.recv
           d == decos[f.deco]
           run == Len(runs) + 1
           store == GetOrCreateMap(maps[r], f.name)
           chain == PromiseChain(d, run)
           value == OrigValue(outcome, d, run)
       IN  /\ runs' = Append(runs, [recv |-> r, deco |-> f.deco, args |-> f.args,
                                    kind |-> f.kind, name |-> f.name, key |-> f.key,
                                    outcome |-> outcome])
           /\ maps' = IF f.kind = "val" \/ outcome = "throw" THEN maps
                      ELSE [maps EXCEPT ![r] = (f.name :> MapSet(store, f.key, value)) @@ @]
           /\ vals' = IF f.kind = "val" /\ outcome # "throw"
                      THEN [vals EXCEPT ![r] = MapSet(@, f.name, value)]
                      ELSE vals
           /\ promises' = IF InstanceofPromise(value)
                          THEN [p \in SeqRange(chain) |-> Pending] @@ promises
                          ELSE promises
           /\ reactions' = IF InstanceofPromise(value)
                           THEN ChainReactions(chain) @@ reactions
                           ELSE reactions
           /\ lastCall' =
                 [recv |-> r, deco |-> f.deco, args |-> f.args, kind |-> f.kind,
                  name |-> f.name, key |-> f.key, hit |-> FALSE,
                  prior |-> StoredAt(r, f.kind, f.name, f.key),
                  priorSt |-> StatusOf(StoredAt(r, f.kind, f.name, f.key)),
                  ret |-> value, run |-> run]
    /\ frames' = SubSeq(frames, 1, Len(frames) - 1)
    /\ observed' = Append(observed, IF outcome = "promise" THEN Waiting ELSE NotAsync)
    /\ UNCHANGED <<counter, descriptors, decos, some, microtasks, lastError, enterSeq,
                   nestedSlots>>
    /\ UNCHANGED <<expireVars, memoize0Vars, heapVars, selectVars>>

\* one member without hasher, one object; promises settle and microtasks run when no
\* origMethod is running
NextReentrant ==
    \/ \E p \in PropNames, o \in OptionSettings : decos = <<>> /\ Decorate(p, NoHasher, o)
    \/ \E r \in OneReceiver, args \in IsolationArgLists : CallHit(r, 1, args)
    \/ \E r \in OneReceiver, args \in IsolationArgLists : MissEnter(r, 1, args)
    \/ \E outcome \in OrigOutcomes : MissReturn(outcome)
    \/ \E run \in 1..MaxRuns, st \in {"fulfilled", "rejected"} :
          frames = <<>> /\ OrigSettles(run, st)
    \/ frames = <<>> /\ RunReaction
    \/ frames = <<>> /\ RunWake

SpecReentrant == Init /\ [][NextReentrant]_vars

\* ---- the branch selection for keys of every type: the closure built for a member,
\* without hasher or with the hasher that returns this.some, is given a value of
\* this.some and an argument list
SelectArgLists ==
    {<<>>, <<Undefined>>, <<Null>>, <<True>>, <<False>>, <<Num(0)>>, <<N10>>,
     <<Str(<<>>)>>, <<S1>>, <<S2>>, <<O1>>, <<F1>>, <<O1, S1>>, <<Null, O1>>, <<F1, O1>>}

SelectStorage(propName, hasher, options, thisSome, args) ==
    /\ LET d == BuildNewMethod(propName, hasher, options, counter)
           kind == StorageKind(d, thisSome, args)
       IN  selected' = [hasher |-> hasher, thisSome |-> thisSome, args |-> args,
                        kind |-> kind, name |-> StorageName(d, kind),
                        key |-> SlotKey(d, thisSome, args)]
    /\ UNCHANGED <<memoizeVars, expireVars, memoize0Vars, heapVars, reentryVars>>

NextSelect ==
    \E p \in {"m", "g"}, h \in {NoHasher, "some0"}, o \in OptionSettings,
       thisSome \in SomeInit..(SomeInit + MaxIncrements), args \in SelectArgLists :
       SelectStorage(p, h, o, thisSome, args)

SpecSelect == Init /\ [][NextSelect]_vars

\* ---- object keys and the garbage collector: one method without hasher, called with
\* an object or a string
\* the objects among the arguments of a call
ObjectsOf(args) == {args[n] : n \in {n \in DOMAIN args : IsObjectKey(args[n])}}

\* the caller's code lets go of an object; it cannot pass it any more
DropOwner(o) ==
    /\ o \in owners
    /\ owners' = owners \ {o}
    /\ lastCall' = NoCall
    /\ UNCHANGED <<counter, descriptors, decos, some, maps, vals, runs, promises,
                   reactions, microtasks, observed, lastError>>
    /\ UNCHANGED <<expireVars, memoize0Vars, reentryVars, selectVars>>

\* the invocations whose settlement observers are still registered or queued: each
\* observer is a function bound to the storage and to hashKey
ObserverRuns ==
    {c \in DOMAIN runs :
        \/ \E p \in DOMAIN reactions :
              p[1] = c /\ \E n \in DOMAIN reactions[p] : reactions[p][n].type = "derive"
        \/ \E n \in DOMAIN microtasks :
              microtasks[n].type = "derive" /\ microtasks[n].dst[1] = c}

\* an object is reachable if the caller's code holds it or a bound observer does
Reachable(o) ==
    \/ o \in owners
    \/ \E c \in ObserverRuns : runs[c].kind # "val" /\ runs[c].key = o

WeakNames == {decos[i].propWeakName : i \in DOMAIN decos}

\* the keys of a storage whose entries the collector may drop: those of a WeakMap
WeakEntries(m, name) == IF name \in WeakNames THEN DOMAIN m ELSE {}

\* the collector drops the WeakMap entries of an unreachable key
Collect(o) ==
    /\ ~Reachable(o)
    /\ \E r \in Receivers :
          \E name \in DOMAIN maps[r] : o \in WeakEntries(maps[r][name], name)
    /\ maps' = [r \in Receivers |->
                 [name \in DOMAIN maps[r] |->
                    IF o \in WeakEntries(maps[r][name], name)
                    THEN MapDelete(maps[r][name], o)
                    ELSE maps[r][name]]]
    /\ lastCall' = NoCall
    /\ UNCHANGED <<counter, descriptors, decos, some, vals, runs, promises, reactions,
                   microtasks, observed, lastError, owners>>
    /\ UNCHANGED <<expireVars, memoize0Vars, reentryVars, selectVars>>

CollectArgLists == {<<O1>>, <<S1>>}
CollectOutcomes == {"number", "promise"}

NextCollect ==
    \/ \E o \in OptionSettings : decos = <<>> /\ Decorate("m", NoHasher, o)
    \/ \E r \in OneReceiver, args \in CollectArgLists :
          ObjectsOf(args) \subseteq owners /\ CallHit(r, 1, args)
    \/ \E r \in OneReceiver, args \in CollectArgLists, outcome \in CollectOutcomes :
          ObjectsOf(args) \subseteq owners /\ CallMiss(r, 1, args, outcome)
    \/ \E run \in 1..MaxRuns, st \in {"fulfilled", "rejected"} : OrigSettles(run, st)
    \/ RunReaction
    \/ RunWake
    \/ DropOwner(O1)
    \/ Collect(O1)

SpecCollect == Init /\ [][NextCollect]_vars

\* the host runs queued microtasks, and the collector runs; nothing makes a pending
\* promise settle
SpecCollectFair ==
    /\ SpecCollect
    /\ WF_vars(RunReaction)
    /\ WF_vars(RunWake)
    /\ WF_vars(Collect(O1))

\* ---- memoizeExpireUnused: one wrapped function, in a host whose timer handles have
\* unref() (Node.js) or are numbers without it
InitExpire ==
    /\ InitMemoize
    /\ InitMemoize0
    /\ InitHeap
    /\ InitReentry
    /\ selected = <<>>
    /\ unusedMs \in UnusedMsSettings
    /\ resolver \in Resolvers
    /\ timeoutHasUnref \in BOOLEAN
    /\ now = 0
    /\ cache = EmptyFn
    /\ timers = EmptyFn
    /\ timerSeq = 0
    /\ count = 0
    /\ touched = EmptyFn
    /\ lastExpire = NoExpire

TouchOf(key) == IF key \in DOMAIN touched THEN touched[key] ELSE NoTouch

\* a call of the wrapped function that finds its key in the cache
ExpireCallHit(args) ==
    /\ timerSeq < MaxTimers
    /\ \E key \in {ExpireKey(resolver, args)} :
          /\ key \in DOMAIN cache
          /\ LET armed == ArmTimer(cache[key], key, unusedMs, timeoutHasUnref, timers,
                                   timerSeq, now)
             IN  /\ cache' = [cache EXCEPT ![key] = armed.slot]
                 /\ timers' = armed.timers
                 /\ timerSeq' = armed.timerSeq
                 /\ touched' = MapSet(touched, key, [at |-> now, ret |-> armed.slot.result])
                 /\ lastExpire' =
                       [type |-> "call", key |-> key, at |-> now, hit |-> TRUE,
                        ret |-> armed.slot.result, prev |-> TouchOf(key)]
    /\ UNCHANGED <<unusedMs, resolver, timeoutHasUnref, now, count>>
    /\ UNCHANGED notExpireVars

\* variant: what func threw is caught, and a slot is stored and armed all the same
ExpireCallMissCaught(args, outcome) ==
    /\ timerSeq < MaxTimers
    /\ count < MaxComputes
    /\ \E key \in {ExpireKey(resolver, args)} :
          /\ key \notin DOMAIN cache
          /\ count' = count + 1
          /\ LET armed == ArmTimer(NewSlot(count), key, unusedMs, timeoutHasUnref,
                                   timers, timerSeq, now)
             IN  /\ cache' = MapSet(cache, key, armed.slot)
                 /\ timers' = armed.timers
                 /\ timerSeq' = armed.timerSeq
                 /\ touched' = IF outcome = "throw" THEN touched
                               ELSE MapSet(touched, key, [at |-> now, ret |-> count])
                 /\ lastExpire' =
                       [type |-> IF outcome = "throw" THEN "throw" ELSE "call",
                        key |-> key, at |-> now, hit |-> FALSE,
                        ret |-> IF outcome = "throw" THEN -1 ELSE count,
                        prev |-> TouchOf(key)]
    /\ UNCHANGED <<unusedMs, resolver, timeoutHasUnref, now>>
    /\ UNCHANGED notExpireVars

\* a call of the wrapped function that does not find its key: func runs and returns
\* the number of its earlier invocations (`count++`), or throws
ExpireCallMiss(args, outcome) ==
    /\ timerSeq < MaxTimers
    /\ count < MaxComputes
    /\ \E key \in {ExpireKey(resolver, args)} :
          /\ key \notin DOMAIN cache
          /\ count' = count + 1
          /\ IF outcome = "throw"
             THEN /\ lastExpire' =
                        [type |-> "throw", key |-> key, at |-> now, hit |-> FALSE,
                         ret |-> -1, prev |-> TouchOf(key)]
                  /\ UNCHANGED <<cache, timers, timerSeq, touched>>
             ELSE LET armed == ArmTimer(NewSlot(count), key, unusedMs, timeoutHasUnref,
                                        timers, timerSeq, now)
                  IN  /\ cache' = MapSet(cache, key, armed.slot)
                      /\ timers' = armed.timers
                      /\ timerSeq' = armed.timerSeq
                      /\ touched' = MapSet(touched, key, [at |-> now, ret |-> count])
                      /\ lastExpire' =
                            [type |-> "call", key |-> key, at |-> now, hit |-> FALSE,
                             ret |-> count, prev |-> TouchOf(key)]
    /\ UNCHANGED <<unusedMs, resolver, timeoutHasUnref, now>>
    /\ UNCHANGED notExpireVars

\* the host runs the callback of an armed timer, not before its delay has passed
TimerFires(id) ==
    /\ id \in DOMAIN timers
    /\ timers[id].deadline <= now
    /\ cache' = RemoveMapKey(cache, timers[id].key)
    /\ timers' = ClearTimeout(timers, id)
    /\ lastExpire' =
          [type |-> "fire", key |-> timers[id].key, at |-> now,
           hit |-> timers[id].key \in DOMAIN cache, ret |-> -1,
           prev |-> TouchOf(timers[id].key)]
    /\ UNCHANGED <<unusedMs, resolver, timeoutHasUnref, now, timerSeq, count, touched>>
    /\ UNCHANGED notExpireVars

\* time passes
Tick ==
    /\ now < MaxTime
    /\ now' = now + 1
    /\ lastExpire' = NoExpire
    /\ UNCHANGED <<unusedMs, resolver, timeoutHasUnref, cache, timers, timerSeq, count,
                   touched>>
    /\ UNCHANGED notExpireVars

NextExpire ==
    \/ \E args \in ExpireArgLists : ExpireCallHit(args)
    \/ \E args \in ExpireArgLists, outcome \in {"return", "throw"} :
          ExpireCallMiss(args, outcome)
    \/ \E id \in 1..MaxTimers : TimerFires(id)
    \/ Tick

SpecExpire == InitExpire /\ [][NextExpire]_vars

\* the host's event loop: time passes, and the callback of a due timer is run
SpecExpireFair ==
    /\ SpecExpire
    /\ WF_vars(Tick)
    /\ \A id \in 1..MaxTimers : WF_vars(TimerFires(id))

\* ---- memoize0
\* memoize0(obj, tag, func) where obj has the property: obj[tag] is returned
Memoize0Hit(obj, tag) ==
    /\ HasOwnProperty(ownProps[obj], tag)
    /\ lastMemoize0' = [obj |-> obj, tag |-> tag, outcome |-> "hit",
                        ret |-> ownProps[obj][tag]]
    /\ UNCHANGED <<ownProps, extensible, stack, nNext>>
    /\ UNCHANGED notMemoize0Vars

\* memoize0(obj, tag, func) where obj has not the property: func() starts; the call
\* may come from inside a running func
Memoize0Enter(obj, tag) ==
    /\ Len(stack) < MaxDepth
    /\ nNext + Len(stack) < MaxFuncReturns
    /\ ~HasOwnProperty(ownProps[obj], tag)
    /\ stack' = Append(stack, [obj |-> obj, tag |-> tag])
    /\ lastMemoize0' = NoMemoize0
    /\ UNCHANGED <<ownProps, extensible, nNext>>
    /\ UNCHANGED notMemoize0Vars

\* the innermost func returns `n++`: defineProperty, then obj[tag] is returned, or the
\* TypeError of defineProperty leaves memoize0
Memoize0FuncReturns ==
    /\ stack # <<>>
    /\ LET f == stack[Len(stack)]
       IN  IF DefinePropertyOk(ownProps[f.obj], extensible[f.obj], f.tag, nNext)
           THEN /\ ownProps' = [ownProps EXCEPT ![f.obj] = DefineProperty(@, f.tag, nNext)]
                /\ lastMemoize0' =
                      [obj |-> f.obj, tag |-> f.tag, outcome |-> "stored",
                       ret |-> DefineProperty(ownProps[f.obj], f.tag, nNext)[f.tag]]
           ELSE /\ ownProps' = ownProps
                /\ lastMemoize0' = [obj |-> f.obj, tag |-> f.tag, outcome |-> "TypeError",
                                    ret |-> nNext]
    /\ nNext' = nNext + 1
    /\ stack' = SubSeq(stack, 1, Len(stack) - 1)
    /\ UNCHANGED extensible
    /\ UNCHANGED notMemoize0Vars

\* the innermost func throws: the exception leaves memoize0
Memoize0FuncThrows ==
    /\ stack # <<>>
    /\ LET f == stack[Len(stack)]
       IN  lastMemoize0' = [obj |-> f.obj, tag |-> f.tag, outcome |-> "threw", ret |-> -1]
    /\ stack' = SubSeq(stack, 1, Len(stack) - 1)
    /\ UNCHANGED <<ownProps, extensible, nNext>>
    /\ UNCHANGED notMemoize0Vars

\* the program calls Object.preventExtensions(obj) (or seals or freezes obj)
PreventExtensions(obj) ==
    /\ extensible[obj]
    /\ extensible' = [extensible EXCEPT ![obj] = FALSE]
    /\ lastMemoize0' = NoMemoize0
    /\ UNCHANGED <<ownProps, stack, nNext>>
    /\ UNCHANGED notMemoize0Vars

NextMemoize0 ==
    \/ \E obj \in Containers, tag \in Tags : Memoize0Hit(obj, tag)
    \/ \E obj \in Containers, tag \in Tags : Memoize0Enter(obj, tag)
    \/ Memoize0FuncReturns
    \/ Memoize0FuncThrows
    \/ \E obj \in Containers : PreventExtensions(obj)

SpecMemoize0 == Init /\ [][NextMemoize0]_vars

\* ------------------------------------------------------------ observation
RunDeco(c) == decos[runs[c].deco]

\* the value invocation c handed to its caller and stored
RunValue(c) == OrigValue(runs[c].outcome, RunDeco(c), c)

\* what the slot of invocation c holds now
RunSlotNow(c) == StoredAt(runs[c].recv, runs[c].kind, runs[c].name, runs[c].key)

SameSlot(c, call) ==
    runs[c].recv = call.recv /\ runs[c].name = call.name /\ runs[c].key = call.key

SameSlotRuns(c1, c2) ==
    runs[c1].recv = runs[c2].recv /\ runs[c1].name = runs[c2].name
        /\ runs[c1].key = runs[c2].key

LaterRuns(c) == {c2 \in (c + 1)..Len(runs) : SameSlotRuns(c, c2)}

IsAsync(c) == runs[c].outcome = "promise"

LastCallSlotNow == StoredAt(lastCall.recv, lastCall.kind, lastCall.name, lastCall.key)

\* --------------------------------------------------------------- claims

\* C1: coalescing.  Under every option setting, a call whose slot holds an unsettled
\* promise when it is issued returns that very promise, the one handed to the first
\* caller by the latest invocation for the slot, and does not invoke origMethod; the
\* first caller is given the promise that is stored.
C1_Coalescing ==
    /\ lastCall.priorSt = "pending" =>
          /\ lastCall.hit /\ lastCall.run = 0
          /\ lastCall.ret = lastCall.prior
          /\ LastCallSlotNow = lastCall.prior
          /\ \E c \in 1..Len(runs) :
                /\ SameSlot(c, lastCall) /\ LaterRuns(c) = {}
                /\ lastCall.ret = RunValue(c)
    /\ (lastCall # NoCall /\ ~lastCall.hit /\ lastCall.ret[1] = "promise") =>
          /\ LastCallSlotNow = lastCall.ret
          /\ lastCall.run = Len(runs)

C1_Witness ==
    /\ lastCall.hit /\ lastCall.priorSt = "pending"
    /\ Truthy(decos[lastCall.deco].clearOnResolve)
    /\ lastCall.kind = "weak"

\* the options argument was omitted: clearOnReject = true, clearOnResolve = false
DefaultPolicy(d) == d.clearOnReject = True /\ d.clearOnResolve = False

\* C2: under the default policy, once the rejection of an invocation's promise has been
\* delivered, its slot no longer holds that promise (it is absent unless a later
\* invocation refilled it), and a call on that slot is not given the rejected promise:
\* it invokes origMethod again.  All three storages.
C2_RetryAfterFailure ==
    \A c \in 1..Len(runs) :
        (DefaultPolicy(RunDeco(c)) /\ IsAsync(c) /\ observed[c].st = "rejected") =>
            /\ RunSlotNow(c) # RunValue(c)
            /\ LaterRuns(c) = {} => RunSlotNow(c) = Absent
            /\ SameSlot(c, lastCall) =>
                  /\ lastCall.ret # RunValue(c)
                  /\ lastCall.priorSt # "rejected"
                  /\ \E c2 \in LaterRuns(c) : lastCall.ret = RunValue(c2)

C2_Witness ==
    \E c \in 1..Len(runs) :
        /\ DefaultPolicy(RunDeco(c)) /\ IsAsync(c) /\ observed[c].st = "rejected"
        /\ SameSlot(c, lastCall) /\ lastCall.run > c /\ ~lastCall.hit
        /\ lastCall.kind = "map"

\* C3: with clearOnReject enabled, in every state in which the stored promise of an
\* invocation is rejected (so before any waiter on it is woken, and whenever a caller
\* has seen the rejection) its slot is absent or holds the promise of a later invocation.
C3_ClearBeforeDelivery ==
    \A c \in 1..Len(runs) :
        ( /\ Truthy(RunDeco(c).clearOnReject) /\ IsAsync(c)
          /\ \/ promises[StoredPromise(RunDeco(c), c)].st = "rejected"
             \/ observed[c].st = "rejected" ) =>
            RunSlotNow(c) \in {Absent} \cup {RunValue(c2) : c2 \in LaterRuns(c)}

C3_Witness ==
    \E c \in 1..Len(runs) :
        /\ Truthy(RunDeco(c).clearOnReject) /\ Truthy(RunDeco(c).clearOnResolve)
        /\ IsAsync(c) /\ observed[c].st = "rejected"
        /\ RunSlotNow(c) = Absent

\* options given with clearOnResolve = true only
OnlyClearOnResolve(d) == d.clearOnReject = Undefined /\ d.clearOnResolve = True

\* C4: clear-on-failure is on by default independently of clear-on-success: for a member
\* decorated with { clearOnResolve: true } only, once the rejection of an invocation's
\* promise has been delivered, its slot no longer holds that promise, and a call on that
\* slot is not given it but invokes origMethod again.
C4_ClearOnRejectByDefault ==
    \A c \in 1..Len(runs) :
        (OnlyClearOnResolve(RunDeco(c)) /\ IsAsync(c) /\ observed[c].st = "rejected") =>
            /\ RunSlotNow(c) # RunValue(c)
            /\ SameSlot(c, lastCall) => ~lastCall.hit /\ lastCall.ret # RunValue(c)

\* C5: with clearOnResolve enabled, while the promise of origMethod is unsettled its slot
\* holds the stored promise, no later invocation for the slot exists and every call on
\* the slot is given that promise; once the fulfilment has been delivered the slot is
\* absent or refilled by a later invocation, and a call on the slot invokes origMethod
\* again and is given the promise of that later, distinct invocation.
C5_ClearOnResolve ==
    \A c \in 1..Len(runs) :
        (Truthy(RunDeco(c).clearOnResolve) /\ IsAsync(c)) =>
            /\ promises[<<c, 0>>].st = "pending" =>
                  /\ RunSlotNow(c) = RunValue(c)
                  /\ LaterRuns(c) = {}
                  /\ SameSlot(c, lastCall) =>
                        /\ lastCall.ret = RunValue(c)
                        /\ lastCall.hit \/ lastCall.run = c
            /\ observed[c].st = "fulfilled" =>
                  /\ RunSlotNow(c) \in {Absent} \cup {RunValue(c2) : c2 \in LaterRuns(c)}
                  /\ SameSlot(c, lastCall) =>
                        /\ lastCall.ret # RunValue(c)
                        /\ \E c2 \in LaterRuns(c) : lastCall.ret = RunValue(c2)

C5_Witness ==
    \E c \in 1..Len(runs) :
        /\ Truthy(RunDeco(c).clearOnResolve) /\ IsAsync(c) /\ observed[c].st = "fulfilled"
        /\ runs[c].kind = "val"
        /\ SameSlot(c, lastCall) /\ ~lastCall.hit /\ lastCall.run > c
        /\ lastCall.ret[1] = "promise"

PlainOutcomes == {"undefined", "number"}

\* C6: a member without hasher called without arguments, whose origMethod returned a plain
\* value (undefined and 0 included): the slot keeps that value, no later invocation for
\* the receiver follows it, and every call returns the value without invoking origMethod.
C6_ZeroArgOnce ==
    \A c \in 1..Len(runs) :
        ( /\ RunDeco(c).hasher = NoHasher /\ runs[c].args = <<>>
          /\ runs[c].outcome \in PlainOutcomes ) =>
            /\ runs[c].kind = "val"
            /\ RunSlotNow(c) = RunValue(c)
            /\ LaterRuns(c) = {}
            /\ SameSlot(c, lastCall) =>
                  /\ lastCall.ret = RunValue(c)
                  /\ lastCall.hit \/ lastCall.run = c

C6_Witness ==
    \E c \in 1..Len(runs) :
        /\ RunDeco(c).hasher = NoHasher /\ runs[c].args = <<>>
        /\ runs[c].outcome = "undefined"
        /\ DescriptorKinds[RunDeco(c).propName] = "getter"
        /\ SameSlot(c, lastCall) /\ lastCall.hit /\ lastCall.ret = Undefined

\* a call with one primitive argument on a member without hasher
PrimitiveArgCall(d, args) ==
    d.hasher = NoHasher /\ Len(args) = 1 /\ ~IsObjectKey(args[1])

\* C7 as stated: a call whose argument equals that of an earlier invocation returns the
\* stored result without invoking origMethod.
C7_OncePerArgument ==
    ( /\ lastCall # NoCall
      /\ PrimitiveArgCall(decos[lastCall.deco], lastCall.args)
      /\ \E c \in 1..Len(runs) :
            c # lastCall.run /\ runs[c].recv = lastCall.recv /\ runs[c].args = lastCall.args
    ) => lastCall.hit

\* the result of invocation c was not stored, or the outcome policy removes it
Unstored(c) ==
    \/ runs[c].outcome = "throw"
    \/ /\ IsAsync(c)
       /\ \/ Truthy(RunDeco(c).clearOnReject) /\ promises[<<c, 0>>].st = "rejected"
          \/ Truthy(RunDeco(c).clearOnResolve) /\ promises[<<c, 0>>].st = "fulfilled"

\* C7: one primitive argument, no hasher.  The key is the argument.  Unless an invocation
\* threw, or its promise settled with an outcome the policy clears, its result stays in
\* the slot of its argument, no later invocation for that argument exists, and a call
\* with that argument returns the result without invoking origMethod; a call with an
\* argument no invocation had misses and invokes origMethod.
C7_OncePerStoredArgument ==
    /\ \A c \in 1..Len(runs) :
          (PrimitiveArgCall(RunDeco(c), runs[c].args) /\ ~Unstored(c)) =>
              /\ runs[c].kind = "map" /\ runs[c].key = runs[c].args[1]
              /\ RunSlotNow(c) = RunValue(c)
              /\ LaterRuns(c) = {}
              /\ (lastCall.recv = runs[c].recv /\ lastCall.args = runs[c].args) =>
                    /\ lastCall.ret = RunValue(c)
                    /\ lastCall.hit \/ lastCall.run = c
    /\ ( /\ lastCall # NoCall
         /\ PrimitiveArgCall(decos[lastCall.deco], lastCall.args)
         /\ \A c \in 1..Len(runs) : c # lastCall.run => runs[c].args # lastCall.args ) =>
            ~lastCall.hit /\ lastCall.run = Len(runs)

C7_Witness ==
    \E c1, c2 \in 1..Len(runs) :
        /\ PrimitiveArgCall(RunDeco(c1), runs[c1].args)
        /\ PrimitiveArgCall(RunDeco(c2), runs[c2].args)
        /\ c1 < c2 /\ runs[c1].args # runs[c2].args
        /\ ~Unstored(c1) /\ ~Unstored(c2)
        /\ lastCall.hit /\ lastCall.args = runs[c1].args /\ lastCall.ret = RunValue(c1)

\* C8: with a hasher, the key of a call is the hasher's result on the receiver's state
\* at the time of the call and the arguments, and nothing else selects the slot: a call
\* whose key equals that of an invocation whose result is stored returns that result
\* without invoking origMethod, whatever its arguments; a call is only ever given the
\* result of an invocation with its key; a call whose key no invocation had misses and
\* invokes origMethod, even if an invocation had its arguments.
C8_HasherSelectsSlot ==
    (lastCall # NoCall /\ decos[lastCall.deco].hasher # NoHasher) =>
        /\ lastCall.key =
              ApplyHasher(decos[lastCall.deco].hasher, some[lastCall.recv], lastCall.args)
        /\ \A c \in 1..Len(runs) :
              (runs[c].recv = lastCall.recv /\ runs[c].key = lastCall.key /\ ~Unstored(c)) =>
                  /\ lastCall.ret = RunValue(c)
                  /\ lastCall.hit \/ lastCall.run = c
        /\ lastCall.hit =>
              \E c \in 1..Len(runs) :
                  runs[c].key = lastCall.key /\ lastCall.ret = RunValue(c)
        /\ (\A c \in 1..Len(runs) : c # lastCall.run => runs[c].key # lastCall.key) =>
              ~lastCall.hit /\ lastCall.run = Len(runs)

\* both cases at once: two invocations with the same arguments and different keys, then
\* a hit with other arguments on the key of the second
C8_Witness ==
    \E c1, c2 \in 1..Len(runs) :
        /\ RunDeco(c1).hasher # NoHasher
        /\ c1 < c2 /\ runs[c1].args = runs[c2].args /\ runs[c1].key # runs[c2].key
        /\ lastCall.hit /\ lastCall.key = runs[c2].key /\ lastCall.args # runs[c2].args
        /\ lastCall.ret = RunValue(c2)

\* C9: under every option setting, when the promise of origMethod rejects, no promise of
\* the chain fulfils, every rejected one carries the error origMethod raised, and what
\* the callers awaiting the stored promise see is a rejection with that same error;
\* a rejection is delivered only if origMethod's promise rejected.
C9_ErrorUnchanged ==
    \A c \in 1..Len(runs) :
        IsAsync(c) =>
            /\ promises[<<c, 0>>].st = "rejected" =>
                  /\ promises[<<c, 0>>].val = ErrorVal(c - 1)
                  /\ \A p \in SeqRange(PromiseChain(RunDeco(c), c)) :
                        /\ promises[p].st \in {"pending", "rejected"}
                        /\ promises[p].st = "rejected" => promises[p].val = ErrorVal(c - 1)
                  /\ observed[c].st \in {"waiting", "rejected"}
            /\ observed[c].st = "rejected" =>
                  /\ promises[<<c, 0>>].st = "rejected"
                  /\ observed[c].val = ErrorVal(c - 1)

C9_Witness ==
    \E c \in 1..Len(runs) :
        /\ IsAsync(c) /\ runs[c].kind = "weak"
        /\ Truthy(RunDeco(c).clearOnReject) /\ Truthy(RunDeco(c).clearOnResolve)
        /\ observed[c].st = "rejected" /\ observed[c].val = ErrorVal(c - 1)

\* what C10 says of the last step, for a wrapped function with unusedMs set
ReadsKeepEntryAlive ==
    /\ (lastExpire.type = "fire" /\ lastExpire.hit) =>
          lastExpire.at - lastExpire.prev.at >= unusedMs.ms
    /\ lastExpire.type = "call" =>
          /\ \E id \in DOMAIN timers : timers[id].key = lastExpire.key
          /\ \A id \in DOMAIN timers :
                timers[id].key = lastExpire.key =>
                    timers[id].deadline = lastExpire.at + unusedMs.ms
    /\ ( /\ lastExpire.type \in {"call", "throw"}
         /\ lastExpire.prev # NoTouch
         /\ lastExpire.at - lastExpire.prev.at < unusedMs.ms ) =>
          /\ lastExpire.type = "call" /\ lastExpire.hit
          /\ lastExpire.ret = lastExpire.prev.ret

\* C10: with unusedMs set, a timer callback never removes an entry less than unusedMs
\* after the entry was created or last read; after every call that returns, the only
\* armed timer of its key is due a full unusedMs after that call; and a call less than
\* unusedMs after the previous call with its key finds the entry and returns what that
\* call returned, without invoking func.
C10_ReadsKeepEntryAlive == UnusedMsSet(unusedMs) => ReadsKeepEntryAlive

\* the same, in hosts whose timer handles have unref() (Node.js)
C10_ReadsKeepEntryAliveWithUnref ==
    (UnusedMsSet(unusedMs) /\ timeoutHasUnref) => ReadsKeepEntryAlive

\* a read later than unusedMs after the creation, kept alive by the reads in between
C10_Witness ==
    /\ UnusedMsSet(unusedMs) /\ timeoutHasUnref
    /\ lastExpire.type = "call" /\ lastExpire.hit
    /\ lastExpire.at > unusedMs.ms
    /\ lastExpire.at - lastExpire.prev.at < unusedMs.ms
    /\ lastExpire.ret = 0 /\ count = 1

\* a full unusedMs has passed since the entry of key was created or last read
Unread(key) ==
    /\ UnusedMsSet(unusedMs)
    /\ key \in DOMAIN cache
    /\ now >= TouchOf(key).at + unusedMs.ms

ReadOrGone(key) ==
    \/ key \notin DOMAIN cache
    \/ lastExpire.type = "call" /\ lastExpire.key = key

UnusedMsUnsetOrZero == ~unusedMs.given \/ unusedMs.ms = 0

\* C12: with unusedMs omitted or 0, no timer is ever armed, no timer callback runs and
\* no step removes a key from the cache; every key the wrapped function returned for is
\* cached with the result of its one returning invocation of func, and a call for such
\* a key returns that result without invoking func.
C12_NoExpiryWithoutUnusedMs ==
    /\ []( UnusedMsUnsetOrZero =>
            /\ timers = EmptyFn /\ timerSeq = 0
            /\ \A key \in DOMAIN cache : cache[key].timeout = NoTimeout
            /\ lastExpire.type # "fire"
            /\ DOMAIN touched = DOMAIN cache
            /\ \A key \in DOMAIN cache : cache[key].result = touched[key].ret
            /\ \A k1, k2 \in DOMAIN cache : cache[k1].result = cache[k2].result => k1 = k2
            /\ Cardinality(DOMAIN cache) <= count
            /\ (lastExpire.type \in {"call", "throw"} /\ lastExpire.prev # NoTouch) =>
                  /\ lastExpire.type = "call" /\ lastExpire.hit
                  /\ lastExpire.ret = lastExpire.prev.ret )
    /\ [][ UnusedMsUnsetOrZero =>
             /\ DOMAIN cache \subseteq DOMAIN cache'
             /\ \A key \in DOMAIN cache : cache'[key].result = cache[key].result ]_vars

\* unusedMs: 0, both keys cached, read again when the clock has reached its bound
C12_Witness ==
    /\ unusedMs = Ms(0)
    /\ now = MaxTime
    /\ Cardinality(DOMAIN cache) = 2
    /\ lastExpire.type = "call" /\ lastExpire.hit /\ lastExpire.prev.at = 0

\* C13: a call whose func throws ends with that throw; the step stores no entry, arms
\* no timer and changes no entry and no timer of any key; after it the key is not
\* cached, and the next call with that key invokes func again.
C13_ThrowStoresNothing ==
    /\ [](lastExpire.type = "throw" =>
            /\ ~lastExpire.hit
            /\ lastExpire.key \notin DOMAIN cache)
    /\ [][ (lastExpire'.type = "throw" /\ count' # count) =>
             /\ cache' = cache
             /\ timers' = timers
             /\ timerSeq' = timerSeq ]_vars
    /\ [][ ( /\ lastExpire.type = "throw"
             /\ lastExpire'.type \in {"call", "throw"}
             /\ lastExpire'.key = lastExpire.key
             /\ lastExpire' # lastExpire ) =>
             ~lastExpire'.hit /\ count' = count + 1 ]_vars

\* func throws for one key while the entry and the timer of the other key exist
C13_Witness ==
    /\ lastExpire.type = "throw"
    /\ UnusedMsSet(unusedMs)
    /\ Cardinality(DOMAIN cache) = 1
    /\ \E id \in DOMAIN timers : timers[id].key \in DOMAIN cache
    /\ count = 2

\* what obj[tag] holds, read off the object
SlotOf(props, obj, tag) == IF tag \in DOMAIN props[obj] THEN props[obj][tag] ELSE -1

\* C14: memoize0 on an extensible obj whose func does not itself define obj[tag].
\* A call whose func returned stores the returned value in obj[tag] and returns it (it
\* fails to only if obj is not extensible or obj[tag] was defined while func ran); a
\* call that finds obj[tag] returns it without invoking func; a stored value never
\* changes; a step changes no slot but the one of the pair whose call it completes;
\* and the values of different pairs are those of different invocations of func.
C14_Memoize0Slots ==
    /\ []( /\ lastMemoize0.outcome \in {"stored", "hit"} =>
                SlotOf(ownProps, lastMemoize0.obj, lastMemoize0.tag) = lastMemoize0.ret
           /\ lastMemoize0.outcome = "stored" => lastMemoize0.ret = nNext - 1
           /\ lastMemoize0.outcome = "TypeError" =>
                \/ ~extensible[lastMemoize0.obj]
                \/ HasOwnProperty(ownProps[lastMemoize0.obj], lastMemoize0.tag)
           /\ \A o1, o2 \in Containers, t1, t2 \in Tags :
                ( /\ HasOwnProperty(ownProps[o1], t1) /\ HasOwnProperty(ownProps[o2], t2)
                  /\ ownProps[o1][t1] = ownProps[o2][t2] ) => (o1 = o2 /\ t1 = t2) )
    /\ [][ /\ lastMemoize0'.outcome = "hit" => (nNext' = nNext /\ stack' = stack)
           /\ \A o \in Containers, t \in Tags :
                /\ HasOwnProperty(ownProps[o], t) =>
                      SlotOf(ownProps', o, t) = SlotOf(ownProps, o, t)
                /\ SlotOf(ownProps', o, t) # SlotOf(ownProps, o, t) =>
                      /\ lastMemoize0'.outcome = "stored"
                      /\ lastMemoize0'.obj = o /\ lastMemoize0'.tag = t ]_vars

\* the calls of the test: containerA/$tag1 twice, containerB/$tag1, containerB/$tag2,
\* and containerB/$tag2 again
C14_Witness ==
    /\ lastMemoize0 = [obj |-> "containerB", tag |-> "$tag2", outcome |-> "hit", ret |-> 2]
    /\ SlotOf(ownProps, "containerA", "$tag1") = 0
    /\ SlotOf(ownProps, "containerB", "$tag1") = 1
    /\ SlotOf(ownProps, "containerA", "$tag2") = -1

\* ---- isolation of the storages
\* the own properties the closure of decoration i keeps on a receiver
NamesOf(i) == {decos[i].propWeakName, decos[i].propMapName, decos[i].propValName}

\* what receiver r holds under the names of decoration i
PairStorage(r, i) ==
    <<[name \in NamesOf(i) \cap DOMAIN maps[r] |-> maps[r][name]],
      [name \in NamesOf(i) \cap DOMAIN vals[r] |-> vals[r][name]]>>

\* C15: a call of wrapped member i on receiver r that finds a slot returns the value of
\* an invocation of member i on r, and of no invocation on another receiver or of
\* another wrapped member, the member of the same name wrapped by a separate decoration
\* included; the decorations keep their storages under different names, and a receiver
\* carries no storage but under these names; a call that invokes origMethod changes
\* only what its own receiver holds under the names of its own member, and a
\* settlement observer only what the receiver of its invocation holds under the names
\* of that invocation's member.
C15_StorageIsolation ==
    /\ []( /\ (lastCall # NoCall /\ lastCall.hit) =>
                /\ \E c \in DOMAIN runs :
                      /\ runs[c].recv = lastCall.recv /\ runs[c].deco = lastCall.deco
                      /\ RunValue(c) = lastCall.ret
                /\ \A c \in DOMAIN runs :
                      RunValue(c) = lastCall.ret =>
                         (runs[c].recv = lastCall.recv /\ runs[c].deco = lastCall.deco)
           /\ \A i, j \in DOMAIN decos : i # j => NamesOf(i) \cap NamesOf(j) = {}
           /\ \A r \in Receivers :
                DOMAIN maps[r] \cup DOMAIN vals[r] \subseteq
                   UNION {NamesOf(i) : i \in DOMAIN decos} )
    /\ [][ \A r \in Receivers, i \in DOMAIN decos :
             PairStorage(r, i)' # PairStorage(r, i) =>
                \/ /\ runs' # runs
                   /\ lastCall'.recv = r /\ lastCall'.deco = i
                \/ /\ runs' = runs /\ microtasks # <<>>
                   /\ Head(microtasks).type = "derive"
                   /\ runs[Head(microtasks).dst[1]].recv = r
                   /\ runs[Head(microtasks).dst[1]].deco = i ]_vars

\* a member and the member of the same name of the subclass were called on one object
\* with the same argument; the slot of the first was removed when its promise settled,
\* the slot of the second is still there and was just returned
C15_Witness ==
    \E c1, c2 \in DOMAIN runs :
       /\ runs[c1].recv = runs[c2].recv /\ runs[c1].deco # runs[c2].deco
       /\ RunDeco(c1).propName = RunDeco(c2).propName
       /\ runs[c1].args = runs[c2].args
       /\ runs[c1].outcome = "promise" /\ RunSlotNow(c1) = Absent
       /\ RunSlotNow(c2) = RunValue(c2)
       /\ lastCall # NoCall /\ lastCall.hit /\ lastCall.deco = runs[c2].deco
       /\ lastCall.recv = runs[c2].recv /\ lastCall.ret = RunValue(c2)

\* C16: under every option setting, an invocation of origMethod that returned a plain
\* value has no promise chain and no settlement observer; its slot holds the value from
\* then on, no later invocation for that slot exists, and every later call for the slot
\* finds it and returns the value.
C16_PlainValueStays ==
    \A c \in DOMAIN runs :
        runs[c].outcome \in PlainOutcomes =>
            /\ \A stage \in 0..2 :
                  <<c, stage>> \notin DOMAIN promises \cup DOMAIN reactions
            /\ \A n \in DOMAIN microtasks :
                  microtasks[n].src[1] # c /\ microtasks[n].dst[1] # c
            /\ RunSlotNow(c) = RunValue(c)
            /\ LaterRuns(c) = {}
            /\ (lastCall # NoCall /\ SameSlot(c, lastCall) /\ lastCall.run # c) =>
                  (lastCall.hit /\ lastCall.ret = RunValue(c))

\* clearOnResolve and clearOnReject are both set, origMethod returned a plain value, and
\* a later call for the slot was made after the promise of another invocation settled
C16_Witness ==
    /\ lastCall # NoCall /\ lastCall.hit
    /\ Truthy(decos[lastCall.deco].clearOnResolve)
    /\ Truthy(decos[lastCall.deco].clearOnReject)
    /\ \E c \in DOMAIN runs :
          /\ runs[c].outcome \in PlainOutcomes /\ SameSlot(c, lastCall)
          /\ lastCall.ret = RunValue(c)
    /\ \E c \in DOMAIN runs : IsAsync(c) /\ promises[<<c, 0>>].st # "pending"

\* ---- object keys
\* some storage of some receiver has an entry under key o
HasEntry(o) ==
    \E r \in Receivers : \E name \in DOMAIN maps[r] : o \in DOMAIN maps[r][name]

\* an invocation for key o has settlement observers and its promise is unsettled
ObservedUnsettled(o) ==
    \E c \in ObserverRuns :
        runs[c].kind # "val" /\ runs[c].key = o /\ promises[<<c, 0>>].st = "pending"

\* C17 as stated: once the caller's code has let go of the key object, the entry under
\* it is eventually gone.
C17_ReclaimedWhenUnowned ==
    (O1 \notin owners) ~> ~HasEntry(O1)

\* C17: once the caller's code has let go of the key object and no invocation for it
\* that has settlement observers is unsettled, the entry under it is eventually gone;
\* no call of the wrapped member is needed for that.
C17_ReclaimedWhenUnownedAndSettled ==
    (O1 \notin owners /\ ~ObservedUnsettled(O1)) ~> ~HasEntry(O1)

\* the default options: the promise of an invocation for the object was fulfilled, so
\* that no observer removed the entry; the caller let go of the object and the entry
\* is gone
C17_Witness ==
    /\ O1 \notin owners
    /\ ~HasEntry(O1)
    /\ \E c \in DOMAIN runs :
          /\ runs[c].key = O1 /\ runs[c].kind = "weak"
          /\ Truthy(RunDeco(c).clearOnReject) /\ ~Truthy(RunDeco(c).clearOnResolve)
          /\ IsAsync(c) /\ promises[<<c, 0>>].st = "fulfilled"

\* C18 as stated: no call of memoize0 ends with an error that func did not raise: the
\* definition of the property never fails, whatever the object and whatever calls
\* were made while func ran.
C18_NoInternalFailure ==
    lastMemoize0.outcome # "TypeError"

\* ---- the decorator
UsageMessage == Str(<<"Only put @Memoize() decorator on a method or get accessor.">>)

\* C19: the decorator applied to a descriptor that is neither a method nor a getter
\* throws the usage message and changes neither the descriptor nor anything else; it
\* does so when the class is defined, before any call of a member; applied to a method
\* or a getter it throws nothing and installs the wrapper in the descriptor.
C19_UsageError ==
    /\ []( lastError # Undefined =>
              /\ lastError = UsageMessage
              /\ runs = <<>> /\ lastCall = NoCall )
    /\ [][ \A p \in PropNames, h \in Hashers \cup {NoHasher}, o \in OptionSettings :
             (Decorate(p, h, o) \/ DecorateOther(p, h, o)) =>
                IF DescriptorKinds[p] \in {"method", "getter"}
                THEN /\ lastError' = Undefined
                     /\ descriptors'[p] = Len(decos') /\ Len(decos') = Len(decos) + 1
                ELSE /\ lastError' = UsageMessage
                     /\ descriptors' = descriptors /\ decos' = decos
                     /\ counter' = counter ]_vars

\* the setter was decorated after the method: the message was thrown, the method's
\* descriptor holds its wrapper and the setter's descriptor holds none
C19_Witness ==
    /\ lastError = UsageMessage
    /\ descriptors["m"] = 1
    /\ descriptors["s"] = 0
    /\ Len(decos) = 1

\* ---- unsettled invocations
RunSlot(c) == <<runs[c].recv, runs[c].name, runs[c].key>>

\* the invocations for a slot that returned a promise which has not settled
UnsettledRuns(slot) ==
    {c \in DOMAIN runs : RunSlot(c) = slot /\ IsAsync(c) /\ promises[<<c, 0>>].st = "pending"}

\* the invocations for a slot that have not returned yet
RunningFrames(slot) == {n \in DOMAIN frames : FrameSlot(frames[n]) = slot}

SlotsUsed ==
    {RunSlot(c) : c \in DOMAIN runs} \cup {FrameSlot(frames[n]) : n \in DOMAIN frames}

\* C20 as stated: no two invocations of origMethod for the same member, receiver and key
\* are unsettled at once.
C20_AtMostOneUnsettled ==
    \A slot \in SlotsUsed : Cardinality(UnsettledRuns(slot)) <= 1

\* C20: origMethod is invoked only by a call that finds no slot for its key; and for a
\* slot for which origMethod was never invoked while it was running, at most one
\* invocation is running or has an unsettled promise.
C20_AtMostOneUnsettledUnlessNested ==
    /\ []( \A slot \in SlotsUsed \ nestedSlots :
              Cardinality(UnsettledRuns(slot)) + Cardinality(RunningFrames(slot)) <= 1 )
    /\ [][ enterSeq' # enterSeq =>
              LET f == frames'[Len(frames')]
              IN  /\ Len(frames') = Len(frames) + 1
                  /\ ~HasSlot(f.kind, maps[f.recv], vals[f.recv], f.name, f.key) ]_vars

\* two invocations for one slot, never nested: the promise of the first settled and its
\* slot was removed, the promise of the second is unsettled and a call just got it
C20_Witness ==
    \E c1, c2 \in DOMAIN runs :
       /\ c1 < c2 /\ RunSlot(c1) = RunSlot(c2) /\ RunSlot(c1) \notin nestedSlots
       /\ IsAsync(c1) /\ promises[<<c1, 0>>].st # "pending"
       /\ UnsettledRuns(RunSlot(c2)) = {c2}
       /\ lastCall # NoCall /\ lastCall.hit /\ SameSlot(c2, lastCall)
       /\ lastCall.ret = RunValue(c2)

\* ---- lookup and insert
\* C21 as stated: a slot that is present is never given another value; it keeps its
\* value until it is removed.
C21_NeverOverwritten ==
    [][ \A c \in DOMAIN runs :
          RunSlotNow(c) # Absent => (RunSlotNow(c))' \in {Absent, RunSlotNow(c)} ]_vars

\* C21: for a slot for which origMethod was never invoked while it was running, no
\* second call misses between a call's miss and its insert, and the slot, once
\* inserted, keeps its value until it is removed; the only calls that run between a
\* miss and its insert are those that origMethod itself makes.
C21_NeverOverwrittenUnlessNested ==
    /\ []( /\ \A slot \in SlotsUsed \ nestedSlots : Cardinality(RunningFrames(slot)) <= 1
           /\ \A n \in DOMAIN frames :
                 FrameSlot(frames[n]) \notin nestedSlots =>
                    ~HasSlot(frames[n].kind, maps[frames[n].recv], vals[frames[n].recv],
                             frames[n].name, frames[n].key) )
    /\ [][ \A c \in DOMAIN runs :
             (RunSlot(c) \notin nestedSlots' /\ RunSlotNow(c) # Absent) =>
                (RunSlotNow(c))' \in {Absent, RunSlotNow(c)} ]_vars

\* origMethod ran for another key inside an invocation, which then returned and
\* inserted its slot; neither slot was entered recursively and both hold their values
C21_Witness ==
    /\ frames = <<>>
    /\ nestedSlots = {}
    /\ \E c1, c2 \in DOMAIN runs :
          /\ c1 < c2 /\ RunSlot(c1) # RunSlot(c2)
          /\ RunSlotNow(c1) = RunValue(c1) /\ RunSlotNow(c2) = RunValue(c2)
          /\ lastCall # NoCall /\ lastCall.run = c2

\* ---- both observers
\* C22: clearOnReject and clearOnResolve both set, origMethod returned a promise.  The
\* chained promises settle as origMethod's promise did, with its value or its error,
\* and that is what an awaiting caller sees; the slot holds the stored promise until
\* the catch observer runs on a rejection or the then observer runs on a fulfilment;
\* that step removes the slot, and the step of the other observer changes no storage,
\* even when the slot was filled again in between.
C22_BothObservers ==
    /\ []( \A c \in DOMAIN runs :
             ( /\ IsAsync(c) /\ Truthy(RunDeco(c).clearOnReject)
               /\ Truthy(RunDeco(c).clearOnResolve) ) =>
                LET p0 == promises[<<c, 0>>]
                    p1 == promises[<<c, 1>>]
                    p2 == promises[<<c, 2>>]
                    removed == \/ p0.st = "rejected" /\ p1.st # "pending"
                               \/ p0.st = "fulfilled" /\ p2.st # "pending"
                IN  /\ p0.st = "fulfilled" => p0.val = Num(c - 1)
                    /\ p0.st = "rejected" => p0.val = ErrorVal(c - 1)
                    /\ p1.st # "pending" => p1 = p0
                    /\ p2.st # "pending" => p2 = p0
                    /\ observed[c].st # "waiting" => observed[c] = p0
                    /\ ~removed => RunSlotNow(c) = RunValue(c)
                    /\ (removed /\ LaterRuns(c) = {}) => RunSlotNow(c) = Absent )
    /\ [][ ( /\ microtasks # <<>> /\ Head(microtasks).type = "derive"
             /\ promises[Head(microtasks).dst].st = "pending"
             /\ promises'[Head(microtasks).dst].st # "pending" ) =>
                LET job == Head(microtasks)
                    c == job.dst[1]
                    src == promises[job.src]
                IN  IF \/ job.dst[2] = 1 /\ src.st = "rejected"
                       \/ job.dst[2] = 2 /\ src.st = "fulfilled"
                    THEN RunSlotNow(c) = RunValue(c) /\ (RunSlotNow(c))' = Absent
                    ELSE maps' = maps /\ vals' = vals ]_vars

\* the promise was rejected and its slot removed; origMethod ran again for the slot
\* before the then observer's turn; the chain ended rejected with the error, the caller
\* saw it, and the slot holds the value of the second invocation
C22_Witness ==
    \E c \in DOMAIN runs :
       /\ IsAsync(c) /\ Truthy(RunDeco(c).clearOnReject)
       /\ Truthy(RunDeco(c).clearOnResolve)
       /\ promises[<<c, 2>>] = [st |-> "rejected", val |-> ErrorVal(c - 1)]
       /\ observed[c] = promises[<<c, 0>>]
       /\ \E c2 \in LaterRuns(c) : RunSlotNow(c) = RunValue(c2)

\* ---- branch selection
\* C23 as stated: without hasher and without arguments the singleton slot is used;
\* otherwise the key is the hasher's result or the first argument, and the WeakMap is
\* used exactly when the key is an object other than null (a function is an object),
\* the Map for primitives, null and undefined.
C23_SelectionAsStated ==
    selected # <<>> =>
        IF selected.hasher = NoHasher /\ selected.args = <<>>
        THEN selected.kind = "val"
        ELSE /\ selected.key = IF selected.hasher = NoHasher THEN selected.args[1]
                               ELSE Num(selected.thisSome)
             /\ selected.kind = IF selected.key[1] \in {"object", "function"}
                                THEN "weak" ELSE "map"

\* C23: the same, with the WeakMap used exactly when typeof of the key is "object" and
\* the key is not null; a function key, like a primitive, null or undefined, selects
\* the Map.
C23_SelectionByTypeof ==
    selected # <<>> =>
        IF selected.hasher = NoHasher /\ selected.args = <<>>
        THEN selected.kind = "val" /\ selected.name[1] = "__memoized_val_"
        ELSE /\ selected.key = IF selected.hasher = NoHasher THEN selected.args[1]
                               ELSE Num(selected.thisSome)
             /\ selected.kind = IF selected.key[1] = "object" THEN "weak" ELSE "map"
             /\ selected.name[1] = IF selected.key[1] = "object" THEN "__memoized_weak_"
                                   ELSE "__memoized_map_"

\* a function was passed as the only argument and the Map was chosen
C23_Witness ==
    /\ selected # <<>>
    /\ selected.hasher = NoHasher /\ selected.args = <<F1>>
    /\ selected.kind = "map" /\ selected.key = F1

C25_NeverSoleOwner ==
    O1 \in owners \/ ~Reachable(O1)

\* C25: a key object that the caller's code has let go of is reachable only while an
\* invocation for it has settlement observers registered or queued, that is, from the
\* call until the reactions of its promise's settlement have run; the WeakMap alone
\* never keeps it.
C25_HeldOnlyByObservers ==
    (O1 \notin owners /\ Reachable(O1)) =>
        \E c \in DOMAIN runs :
           /\ runs[c].kind = "weak" /\ runs[c].key = O1 /\ IsAsync(c)
           /\ Truthy(RunDeco(c).clearOnReject) \/ Truthy(RunDeco(c).clearOnResolve)
           /\ promises[StoredPromise(RunDeco(c), c)].st = "pending"

\* the default options: the caller let go of the object while the promise of the
\* invocation for it is pending; the catch observer holds it and its entry is there
C25_Witness ==
    /\ O1 \notin owners
    /\ Reachable(O1)
    /\ HasEntry(O1)
    /\ ObservedUnsettled(O1)

\* ---- what an observer removes
\* C26 as stated: a settlement observer changes no slot but the one that holds the
\* promise stored by its own invocation.
C26_RemovesOwnSlotOnly ==
    [][ ( /\ microtasks # <<>> /\ Head(microtasks).type = "derive"
          /\ promises[Head(microtasks).dst].st = "pending"
          /\ promises'[Head(microtasks).dst].st # "pending" ) =>
             \A c \in DOMAIN runs :
                (RunSlotNow(c))' # RunSlotNow(c) =>
                   RunSlotNow(c) = RunValue(Head(microtasks).dst[1]) ]_vars

\* C26: for a slot for which origMethod was never invoked while it was running, a
\* settlement observer changes no slot but the one that holds the promise stored by its
\* own invocation; the slot of a later invocation for the same member, receiver and
\* key is not removed by the settlement of an earlier one.
C26_RemovesOwnSlotOnlyUnlessNested ==
    [][ ( /\ microtasks # <<>> /\ Head(microtasks).type = "derive"
          /\ promises[Head(microtasks).dst].st = "pending"
          /\ promises'[Head(microtasks).dst].st # "pending"
          /\ RunSlot(Head(microtasks).dst[1]) \notin nestedSlots ) =>
             \A c \in DOMAIN runs :
                (RunSlotNow(c))' # RunSlotNow(c) =>
                   RunSlotNow(c) = RunValue(Head(microtasks).dst[1]) ]_vars

\* the promise of an invocation settled and its observer removed the slot; a later
\* invocation for the slot stored a promise, which is unsettled and still in the slot
\* after every reaction of the earlier one has run
C26_Witness ==
    \E c1, c2 \in DOMAIN runs :
       /\ c1 < c2 /\ RunSlot(c1) = RunSlot(c2) /\ RunSlot(c1) \notin nestedSlots
       /\ IsAsync(c1) /\ Unstored(c1)
       /\ promises[StoredPromise(RunDeco(c1), c1)].st # "pending"
       /\ microtasks = <<>>
       /\ IsAsync(c2) /\ promises[<<c2, 0>>].st = "pending"
       /\ RunSlotNow(c2) = RunValue(c2)

\* ---- one timer per entry
\* with unusedMs set, every cached key has exactly one armed timer and every armed timer
\* is for a cached key
OneTimerPerEntry ==
    /\ \A key \in DOMAIN cache :
          \E id \in DOMAIN timers :
             /\ timers[id].key = key
             /\ \A other \in DOMAIN timers : timers[other].key = key => other = id
    /\ \A id \in DOMAIN timers : timers[id].key \in DOMAIN cache

\* a timer callback that deletes an entry is that of the timer armed by the last call
\* that created or read the entry
FireDeletesOnlyUntouched ==
    \A id \in DOMAIN timers :
       ( /\ id \notin DOMAIN timers'
         /\ timers[id].key \in DOMAIN cache
         /\ timers[id].key \notin DOMAIN cache' ) =>
            timers[id].deadline = TouchOf(timers[id].key).at + unusedMs.ms

\* C27 as stated: with unusedMs set, in every reachable state each present entry has
\* exactly one armed timer and no armed timer exists for an absent key, and a timer
\* fire never deletes an entry created or read after that timer was armed.
C27_TimerInvariant ==
    /\ [](UnusedMsSet(unusedMs) => OneTimerPerEntry)
    /\ [][UnusedMsSet(unusedMs) => FireDeletesOnlyUntouched]_vars

\* C27, where the host's timer handle has unref(): with unusedMs set, each present
\* entry has exactly one armed timer, no armed timer exists for an absent key, and a
\* timer fire never deletes an entry created or read after that timer was armed.
C27_TimerInvariantWithUnref ==
    /\ []((UnusedMsSet(unusedMs) /\ timeoutHasUnref) => OneTimerPerEntry)
    /\ [][(UnusedMsSet(unusedMs) /\ timeoutHasUnref) => FireDeletesOnlyUntouched]_vars

\* an entry was created, read later (its timer re-armed), and deleted by the timer of
\* the read; the other key's entry is still cached with its one timer
C27_Witness ==
    /\ UnusedMsSet(unusedMs) /\ timeoutHasUnref
    /\ lastExpire.type = "fire" /\ lastExpire.hit
    /\ lastExpire.prev.at > 0
    /\ lastExpire.at = lastExpire.prev.at + unusedMs.ms
    /\ lastExpire.key \notin DOMAIN cache
    /\ cache # EmptyFn /\ timers # EmptyFn
    /\ timerSeq = 3

====
